---------------------------- MODULE Spec2Model ----------------------------
(***************************************************************************)
(* A model of the identity reset / restore / patch engine of               *)
(* cursor-free-vip:                                                        *)
(*   src/reset_machine_manual.py   reset, patching, id generation          *)
(*   src/restore_machine_id.py     restore from a storage.json backup      *)
(*   src/bypass_token_limit.py     the stand-alone workbench patch         *)
(*                                                                         *)
(* Six specifications share the module:                                    *)
(*   IdSpec     generate_new_ids as a function of the random source        *)
(*   PatchSpec  the workbench rule set applied repeatedly to a text        *)
(*   VerSpec    the version comparisons applied to version strings         *)
(*   PathSpec   the path resolvers applied to a host                       *)
(*   ProductSpec  bypass_version called on a product.json                  *)
(*   Spec       the reset / restore / patch runs over the files on disk    *)
(***************************************************************************)
EXTENDS Integers, Sequences, FiniteSets, TLC

VARIABLES
    \* ---- IdSpec
    rnd,          \* the random source: [seed, stride] of the byte stream os.urandom returns
    newIds,       \* the dictionary generate_new_ids returned, <<>> before the call
    \* ---- PatchSpec
    patchRules,   \* which file's rule set is applied: "reset" or "bypass"
    patchHist,    \* <<original text, text after one application, after two, ...>>
    \* ---- VerSpec
    ver,          \* one call of compare_versions or version_check: arguments and result
    \* ---- PathSpec
    host,         \* platform.system(), cursor_path of config.ini, the directories on disk
    resolved,     \* the last call of a path resolver and what it returned, <<>> before
    \* ---- ProductSpec
    product,      \* product.json, its backups and the call of bypass_version in progress
    \* ---- Spec: the host of the runs
    env,          \* sys.platform, APPDATA and the state of config.ini
    \* ---- Spec: the files on disk
    clock,        \* the wall clock in seconds: the timestamp datetime.now() formats
    storage,      \* storage.json (self.db_path)
    storageBak,   \* storage.json.bak.<ts> (reset) and storage.json.restore_bak.<ts> (restore)
    sqlite,       \* state.vscdb (self.sqlite_path): the committed database
    machineId,    \* the machineId marker file
    machineIdBak, \* machineId.backup.<ts> (reset) and machineId.restore_bak.<ts> (restore)
    appFile,      \* the patched files: workbench.desktop.main.js and out/main.js
    appBak,       \* workbench...js.backup.<ts>, main.js.bak.<ts> and main.js.old.<ts>
    packageJson,  \* package.json: the installed version
    appStat,      \* os.stat of the patched files: st_mode and the owner (st_uid, st_gid)
    tmpFile,      \* the NamedTemporaryFile(delete=False) of the patch in progress
    sysStore,     \* the OS identity store (registry values / platform UUID plist)
    \* ---- Spec: the running program
    pc,           \* the statement the program is at; "idle" before a run, "done" after
    run,          \* the locals of the run in progress, and its return value
    runs,         \* runs started so far
    faults        \* steps that failed or were interrupted so far

idVars == <<rnd, newIds>>
patchVars == <<patchRules, patchHist>>
verVars == <<ver>>
pathVars == <<host, resolved>>
productVars == <<product>>
pureVars == <<idVars, patchVars, verVars, pathVars, productVars>>
idStoreVars == <<storage, storageBak, sqlite, machineId, machineIdBak, sysStore>>
jsVars == <<appFile, appBak, packageJson, tmpFile, appStat>>
diskVars == <<idStoreVars, jsVars>>
progVars == <<clock, pc, run, runs, faults>>
mainVars == <<diskVars, progVars, env>>

vars == <<pureVars, mainVars>>

\* A path that holds no file, a regular file, and a file a failed or
\* interrupted write left truncated or half written.
Missing == [kind |-> "missing", data |-> <<>>]
File(content) == [kind |-> "file", data |-> content]
Partial == [kind |-> "partial", data |-> <<>>]

\* The locals of a run before it starts.
NoRun ==
    [op |-> "none", result |-> "none", ids |-> <<>>, config |-> <<>>, sel |-> -1,
     txn |-> <<>>, rolled |-> 0, dbOk |-> "none", dbBefore |-> Missing, rules |-> "reset",
     target |-> "workbench", tmpSet |-> FALSE, orig |-> Missing, jsOk |-> "none",
     start |-> <<>>, pathError |-> FALSE, sysOk |-> "none", warned |-> {},
     confirmed |-> FALSE, stat |-> <<>>]

\* Values the variables of a specification hold while another one runs.
IdIdle == rnd = [seed |-> 0, stride |-> 0] /\ newIds = <<>>
PatchIdle == patchRules = "reset" /\ patchHist = <<>>
VerIdle == ver = <<>>
PathIdle == host = <<>> /\ resolved = <<>>
ProductIdle == product = <<>>
NoEnv == [platform |-> "linux", appdata |-> TRUE, ini |-> "ok"]
MainIdle ==
    /\ clock = 0 /\ pc = "idle" /\ run = NoRun /\ runs = 0 /\ faults = 0
    /\ storage = Missing /\ storageBak = <<>> /\ packageJson = Missing
    /\ sqlite = Missing /\ machineId = Missing /\ machineIdBak = <<>>
    /\ appFile = <<>> /\ appBak = <<>> /\ tmpFile = Missing /\ sysStore = <<>>
    /\ appStat = <<>>
    /\ env = NoEnv

(***************************************************************************)
(* Identity generation: src/reset_machine_manual.py generate_new_ids       *)
(***************************************************************************)

\* The identity keys generate_new_ids returns.
IdentityKeys ==
    { "telemetry.devDeviceId", "telemetry.macMachineId", "telemetry.machineId",
      "telemetry.sqmId", "storage.serviceMachineId" }

MaxSeed == 15
Strides == {0, 1, 7, 16, 85, 255}

\* os.urandom: byte i (from 0) of the stream of the random source r.
RandomByte(r, i) == (r.seed * 17 + i * r.stride) % 256
urandom(r, from, n) == [i \in 1..n |-> RandomByte(r, from + i - 1)]

HexChars == <<"0","1","2","3","4","5","6","7","8","9","a","b","c","d","e","f">>
LowerHex == {HexChars[i] : i \in 1..16}
UpperHex == {"0","1","2","3","4","5","6","7","8","9","A","B","C","D","E","F"}

\* '%02x' of one byte.
HexOfByte(b) == <<HexChars[(b \div 16) + 1], HexChars[(b % 16) + 1]>>

RECURSIVE hexlify(_)
hexlify(bytes) ==
    IF bytes = <<>> THEN <<>> ELSE HexOfByte(Head(bytes)) \o hexlify(Tail(bytes))

\* str.upper(), on the characters a UUID text holds.
UpperChar(c) ==
    CASE c = "a" -> "A" [] c = "b" -> "B" [] c = "c" -> "C"
      [] c = "d" -> "D" [] c = "e" -> "E" [] c = "f" -> "F"
      [] OTHER -> c
upper(s) == [i \in 1..Len(s) |-> UpperChar(s[i])]

\* uuid.uuid4(): UUID(bytes=os.urandom(16), version=4) sets the variant bits
\* (10xx xxxx in byte 8) and the version nibble (0100 in byte 6).
uuid4_bytes(b) ==
    [i \in 1..16 |-> IF i = 7 THEN (b[i] % 16) + 64
                     ELSE IF i = 9 THEN (b[i] % 64) + 128
                     ELSE b[i]]

\* str(UUID): '%032x' cut 8-4-4-4-12.
uuid_str(b) ==
    LET hex == hexlify(b) IN
    SubSeq(hex, 1, 8) \o <<"-">> \o SubSeq(hex, 9, 12) \o <<"-">> \o
    SubSeq(hex, 13, 16) \o <<"-">> \o SubSeq(hex, 17, 20) \o <<"-">> \o
    SubSeq(hex, 21, 32)

uuid4(r, from) == uuid_str(uuid4_bytes(urandom(r, from, 16)))

\* hashlib.sha256(data).digest() / sha512: an opaque function of the data to
\* 32 / 64 bytes; only its length and byte range are modelled.
sha_digest(data, n) ==
    [i \in 1..n |-> (data[((i - 1) % Len(data)) + 1] * 31 + 7 * i + data[1]) % 256]
sha256_hexdigest(data) == hexlify(sha_digest(data, 32))
sha512_hexdigest(data) == hexlify(sha_digest(data, 64))

generate_new_ids_lower_sqm(r) ==
    LET dev_device_id == uuid4(r, 0) IN
    [k \in IdentityKeys |->
        CASE k = "telemetry.devDeviceId" -> dev_device_id
          [] k = "telemetry.machineId" -> sha256_hexdigest(urandom(r, 16, 32))
          [] k = "telemetry.macMachineId" -> sha512_hexdigest(urandom(r, 48, 64))
          [] k = "telemetry.sqmId" -> <<"{">> \o uuid4(r, 112) \o <<"}">>
          [] OTHER -> dev_device_id]

\* The dictionary generate_new_ids returns, the random source read in the
\* order of the calls: uuid4, urandom(32), urandom(64), uuid4.
generate_new_ids(r) ==
    LET dev_device_id == uuid4(r, 0)
        machine_id == sha256_hexdigest(urandom(r, 16, 32))
        mac_machine_id == sha512_hexdigest(urandom(r, 48, 64))
        sqm_id == <<"{">> \o upper(uuid4(r, 112)) \o <<"}">>
    IN  [k \in IdentityKeys |->
            CASE k = "telemetry.devDeviceId" -> dev_device_id
              [] k = "telemetry.macMachineId" -> mac_machine_id
              [] k = "telemetry.machineId" -> machine_id
              [] k = "telemetry.sqmId" -> sqm_id
              [] k = "storage.serviceMachineId" -> dev_device_id]

IdInit ==
    /\ rnd \in [seed : 0..MaxSeed, stride : Strides]
    /\ newIds = <<>>
    /\ PatchIdle
    /\ VerIdle
    /\ PathIdle
    /\ MainIdle
    /\ ProductIdle

GenerateNewIds ==
    /\ newIds = <<>>
    /\ newIds' = generate_new_ids(rnd)
    /\ UNCHANGED <<rnd, patchVars, verVars, pathVars, mainVars, productVars>>

IdNext == GenerateNewIds

IdSpec == IdInit /\ [][IdNext]_vars

\* UUID textual form: 36 characters, hyphens at 9, 14, 19 and 24, hex digits
\* of the given case elsewhere.
IsUuidText(s, digits) ==
    /\ Len(s) = 36
    /\ \A i \in 1..36 :
          IF i \in {9, 14, 19, 24} THEN s[i] = "-" ELSE s[i] \in digits

IsHexText(s, n) == Len(s) = n /\ \A i \in 1..n : s[i] \in LowerHex

MaxLen == 3
MaxApply == 2

\* 'B(k,D(Ln,{title:"Upgrade to Pro",...' and its replacement, and the
\* M(x,I(as,... and $(k,E(Ks,... variants.
BtnB == <<"B(k,D(Ln,{title:\"Upgrade to Pro\"...t.pay}}),null)">>
BtnBNew == <<"B(k,D(Ln,{title:\"yeongpin GitHub\"...window.open...}}),null)">>
BtnM == <<"M(x,I(as,{title:\"Upgrade to Pro\"...t.pay}}),null)">>
BtnMNew == <<"M(x,I(as,{title:\"yeongpin GitHub\"...window.open...}}),null)">>
BtnK == <<"$(k,E(Ks,{title:\"Upgrade to Pro\"...t.pay}}),null)">>
BtnKNew == <<"$(k,E(Ks,{title:\"yeongpin GitHub\"...window.open...}}),null)">>
\* '<div>Pro Trial' -> '<div>Pro'
Badge == <<"<div>Pro", " Trial">>
BadgeNew == <<"<div>Pro">>
\* 'py-1">Auto-select' -> 'py-1">Bypass-Version-Pin'
AutoSelect == <<"py-1\">", "Auto-select">>
AutoSelectNew == <<"py-1\">", "Bypass-Version-Pin">>
\* 'async getEffectiveTokenLimit(e){const n=e.modelName;if(!n)return 2e5;'
TokenLimit ==
    <<"async getEffectiveTokenLimit(e){", "const n=e.modelName;if(!n)return ", "2e5;">>
TokenLimitNew ==
    <<"async getEffectiveTokenLimit(e){", "return 9000000;",
      "const n=e.modelName;if(!n)return ", "9e5;">>
\* 'var DWr=ne("<div class=settings__item_description>...<strong></strong>.");'
ProLabel == <<"var DWr=ne(\"<div ...<strong></strong>.", "\");">>
ProLabelNew == <<"var DWr=ne(\"<div ...<strong></strong>.", " <h1>Pro</h1>", "\");">>
\* 'notifications-toasts' -> 'notifications-toasts hidden'
Toasts == <<"notifications-toasts">>
ToastsNew == <<"notifications-toasts", " hidden">>

\* The patterns dictionary of reset_machine_manual.modify_workbench_js, in
\* insertion order.
ResetPatterns ==
    << <<BtnB, BtnBNew>>, <<BtnM, BtnMNew>>, <<Badge, BadgeNew>>,
       <<AutoSelect, AutoSelectNew>>, <<TokenLimit, TokenLimitNew>>,
       <<ProLabel, ProLabelNew>>, <<Toasts, ToastsNew>> >>

\* The patterns dictionary of bypass_token_limit.modify_workbench_js.
BypassPatterns ==
    << <<BtnB, BtnBNew>>, <<BtnM, BtnMNew>>, <<BtnK, BtnKNew>>,
       <<Badge, BadgeNew>>, <<AutoSelect, AutoSelectNew>>,
       <<TokenLimit, TokenLimitNew>>, <<ProLabel, ProLabelNew>>,
       <<Toasts, ToastsNew>> >>

Patterns(rules) == IF rules = "reset" THEN ResetPatterns ELSE BypassPatterns

\* A mutant of str_replace: the text after the first occurrence is lost.
str_replace_cut(s, old, new) ==
    LET at == { i \in 1..Len(s) : i + Len(old) - 1 <= Len(s)
                                    /\ SubSeq(s, i, i + Len(old) - 1) = old }
        i == CHOOSE i \in at : \A j \in at : i <= j
    IN  IF at = {} THEN s ELSE SubSeq(s, 1, i - 1) \o new

\* str.replace(old, new): every non-overlapping occurrence, leftmost first.
RECURSIVE str_replace(_, _, _)
str_replace(s, old, new) ==
    IF Len(s) < Len(old) THEN s
    ELSE IF SubSeq(s, 1, Len(old)) = old
         THEN new \o str_replace(SubSeq(s, Len(old) + 1, Len(s)), old, new)
         ELSE <<Head(s)>> \o str_replace(Tail(s), old, new)

\* for old_pattern, new_pattern in patterns.items():
\*     content = content.replace(old_pattern, new_pattern)
RECURSIVE apply_patterns(_, _)
apply_patterns(content, patterns) ==
    IF patterns = <<>> THEN content
    ELSE apply_patterns(str_replace(content, Head(patterns)[1], Head(patterns)[2]),
                        Tail(patterns))

patch_workbench(content, rules) == apply_patterns(content, Patterns(rules))

\* The chunks the texts of PatchSpec are made of.
TextChunks ==
    { "x", "notifications-toasts", " hidden", "<div>Pro", " Trial", BtnB[1] }

RECURSIVE TextsUpTo(_)
TextsUpTo(n) ==
    IF n = 0 THEN { <<>> }
    ELSE LET shorter == TextsUpTo(n - 1) IN
         shorter \cup { Append(t, c) : t \in { u \in shorter : Len(u) = n - 1 },
                                       c \in TextChunks }

PatchInit ==
    /\ patchRules \in {"reset", "bypass"}
    /\ patchHist \in { <<t>> : t \in TextsUpTo(MaxLen) }
    /\ IdIdle
    /\ VerIdle
    /\ PathIdle
    /\ MainIdle
    /\ ProductIdle

\* One more run of modify_workbench_js over the file's current text.
ApplyWorkbenchPatch ==
    /\ patchHist # <<>>
    /\ Len(patchHist) <= MaxApply
    /\ patchHist' = Append(patchHist, patch_workbench(patchHist[Len(patchHist)], patchRules))
    /\ UNCHANGED <<idVars, patchRules, verVars, pathVars, mainVars, productVars>>

PatchNext == ApplyWorkbenchPatch

PatchSpec == PatchInit /\ [][PatchNext]_vars

\* C4: applying the workbench rule set twice in succession yields the same
\* content as applying it once.
C4_PatchIdempotent ==
    Len(patchHist) >= 3 => patchHist[3] = patchHist[2]


\* old stands in s at position i; old is a substring of s.
occurs_at(s, i, old) ==
    i + Len(old) - 1 <= Len(s) /\ SubSeq(s, i, i + Len(old) - 1) = old
occurs(s, old) == \E i \in 1..Len(s) : occurs_at(s, i, old)

\* The text read once from left to right: an occurrence of a search text
\* gives its replacement, every other chunk is copied.
RECURSIVE OnePass(_, _)
OnePass(s, patterns) ==
    IF s = <<>> THEN <<>>
    ELSE LET hits == { k \in DOMAIN patterns : occurs_at(s, 1, patterns[k][1]) }
             k == CHOOSE k \in hits : \A j \in hits : k <= j
         IN  IF hits = {} THEN <<Head(s)>> \o OnePass(Tail(s), patterns)
             ELSE patterns[k][2]
                  \o OnePass(SubSeq(s, Len(patterns[k][1]) + 1, Len(s)), patterns)

\* The patterns but for the k-th.
Without(patterns, k) ==
    SubSeq(patterns, 1, k - 1) \o SubSeq(patterns, k + 1, Len(patterns))

MaxParts == 3

DigitValue ==
    [c \in {"0", "1", "2", "3", "4", "5", "6", "7", "8", "9"} |->
        CASE c = "0" -> 0 [] c = "1" -> 1 [] c = "2" -> 2 [] c = "3" -> 3 [] c = "4" -> 4
          [] c = "5" -> 5 [] c = "6" -> 6 [] c = "7" -> 7 [] c = "8" -> 8 [] c = "9" -> 9]

\* \d+ : one or more digits.
digits(text) == text # <<>> /\ \A i \in 1..Len(text) : text[i] \in DOMAIN DigitValue

\* int(text) of a text of digits; anything else is a ValueError.
RECURSIVE int(_)
int(text) ==
    IF text = <<>> THEN 0
    ELSE 10 * int(SubSeq(text, 1, Len(text) - 1)) + DigitValue[text[Len(text)]]

\* [int(x) for x in version.split('.')] / tuple(map(int, ver.split(".")))
can_parse(version) == \A i \in 1..Len(version) : digits(version[i])
parse_version(version) == [i \in 1..Len(version) |-> int(version[i])]

\* A mutant of compare_parts: the shorter version is not padded, the loop
\* stops at its end.
RECURSIVE compare_parts_unpadded(_, _, _)
compare_parts_unpadded(v1_parts, v2_parts, i) ==
    IF i > Len(v1_parts) \/ i > Len(v2_parts) THEN 0
    ELSE IF v1_parts[i] < v2_parts[i] THEN -1
    ELSE IF v1_parts[i] > v2_parts[i] THEN 1
    ELSE compare_parts_unpadded(v1_parts, v2_parts, i + 1)

\* compare_versions: for i in range(max(len(v1_parts), len(v2_parts))), a
\* missing part counting as 0.
RECURSIVE compare_parts(_, _, _)
compare_parts(v1_parts, v2_parts, i) ==
    IF i > Len(v1_parts) /\ i > Len(v2_parts) THEN 0
    ELSE LET v1 == IF i <= Len(v1_parts) THEN v1_parts[i] ELSE 0
             v2 == IF i <= Len(v2_parts) THEN v2_parts[i] ELSE 0
         IN  IF v1 < v2 THEN -1
             ELSE IF v1 > v2 THEN 1
             ELSE compare_parts(v1_parts, v2_parts, i + 1)

\* compare_versions(version1, version2): the result, or the ValueError of int.
compare_versions(version1, version2) ==
    IF can_parse(version1) /\ can_parse(version2)
    THEN [raised |-> "none",
          value |-> compare_parts(parse_version(version1), parse_version(version2), 1)]
    ELSE [raised |-> "ValueError", value |-> 0]

\* Python's order of tuples of integers: a proper prefix is the smaller.
\* A mutant of tuple_lt: no version is below another.
tuple_lt_never(a, b) == FALSE

RECURSIVE tuple_lt(_, _)
tuple_lt(a, b) ==
    IF b = <<>> THEN FALSE
    ELSE IF a = <<>> THEN TRUE
    ELSE IF Head(a) # Head(b) THEN Head(a) < Head(b)
    ELSE tuple_lt(Tail(a), Tail(b))

\* re.match(r"^\d+\.\d+\.\d+$", version)
well_formed(version) == Len(version) = 3 /\ can_parse(version)

EmptyText == << <<>> >>

\* Every rejecting branch of version_check prints translator.get(...): with
\* translator=None that is an AttributeError inside the try, and a second one
\* inside the except clause, which nothing catches.
rejected(translator) ==
    IF translator THEN [raised |-> "none", value |-> FALSE]
    ELSE [raised |-> "AttributeError", value |-> FALSE]

\* version_check(version, min_version, max_version, translator)
version_check(version, min_version, max_version, translator) ==
    IF ~well_formed(version) THEN rejected(translator)
    ELSE LET current == parse_version(version) IN
         IF min_version # EmptyText /\ ~can_parse(min_version) THEN rejected(translator)
         ELSE IF min_version # EmptyText /\ tuple_lt(current, parse_version(min_version))
         THEN rejected(translator)
         ELSE IF max_version # EmptyText /\ ~can_parse(max_version) THEN rejected(translator)
         ELSE IF max_version # EmptyText /\ tuple_lt(parse_version(max_version), current)
         THEN rejected(translator)
         ELSE [raised |-> "none", value |-> TRUE]

\* The texts the calls are tried on; the callers hand version_check the
\* translator of the program.
DigitTexts == { <<"0">>, <<"1">>, <<"9">>, <<"1", "0">>, <<"4", "5">>, <<"0", "9">> }
OtherTexts == { <<>>, <<"x">> }
TextSeqs(texts, n) == UNION { [1..k -> texts] : k \in 1..n }
DottedVersions == TextSeqs(DigitTexts, MaxParts)
CheckedVersions ==
    TextSeqs({ <<"0">>, <<"9">>, <<"1", "0">>, <<"4", "5">> } \cup OtherTexts, MaxParts)
CheckBounds ==
    { EmptyText,
      << <<"0">>, <<"4", "5">>, <<"0">> >>, << <<"0">>, <<"4", "5">> >>,
      << <<"0">>, <<"1", "0">> >>, << <<"0">>, <<"9">>, <<"0">> >>,
      << <<"1">> >>, << <<"x">> >> }

VerInit ==
    /\ \/ \E v1 \in DottedVersions, v2 \in DottedVersions :
             ver = [call |-> "compare_versions", version |-> v1, other |-> v2,
                    max |-> EmptyText, translator |-> TRUE, done |-> FALSE,
                    raised |-> "none", cmp |-> 0, rev |-> 0, ok |-> FALSE]
       \/ \E v \in CheckedVersions, lo \in CheckBounds, hi \in CheckBounds :
             ver = [call |-> "version_check", version |-> v, other |-> lo,
                    max |-> hi, translator |-> TRUE, done |-> FALSE,
                    raised |-> "none", cmp |-> 0, rev |-> 0, ok |-> FALSE]
    /\ IdIdle
    /\ PatchIdle
    /\ PathIdle
    /\ MainIdle
    /\ ProductIdle

\* compare_versions(version1, version2) and the call with the arguments
\* exchanged.
CompareVersions ==
    /\ ver.call = "compare_versions" /\ ~ver.done
    /\ LET r == compare_versions(ver.version, ver.other)
           q == compare_versions(ver.other, ver.version)
       IN  ver' = [ver EXCEPT !.done = TRUE, !.raised = r.raised,
                              !.cmp = r.value, !.rev = q.value]
    /\ UNCHANGED <<idVars, patchVars, pathVars, mainVars, productVars>>

VersionCheck ==
    /\ ver.call = "version_check" /\ ~ver.done
    /\ LET r == version_check(ver.version, ver.other, ver.max, ver.translator)
       IN  ver' = [ver EXCEPT !.done = TRUE, !.raised = r.raised, !.ok = r.value]
    /\ UNCHANGED <<idVars, patchVars, pathVars, mainVars, productVars>>

VerNext == CompareVersions \/ VersionCheck

VerSpec == VerInit /\ [][VerNext]_vars

\* The version as numbers, a missing trailing part counting as 0.
PartAt(version, i) == IF i <= Len(version) THEN int(version[i]) ELSE 0
PartsUpTo(version, other) == 1..(IF Len(version) > Len(other) THEN Len(version) ELSE Len(other))
SameParts(version, other) ==
    \A i \in PartsUpTo(version, other) : PartAt(version, i) = PartAt(other, i)
\* version comes before other: at the first part where they differ.
PartsBefore(version, other) ==
    \E i \in PartsUpTo(version, other) :
        /\ PartAt(version, i) < PartAt(other, i)
        /\ \A j \in 1..(i - 1) : PartAt(version, j) = PartAt(other, j)

V_0_9_0 == << <<"0">>, <<"9">>, <<"0">> >>
V_0_10_0 == << <<"0">>, <<"1", "0">>, <<"0">> >>
V_0_45_0 == << <<"0">>, <<"4", "5">>, <<"0">> >>
V_1_0_0 == << <<"1">>, <<"0">>, <<"0">> >>
V_0_9_9 == << <<"0">>, <<"9">>, <<"9">> >>

\* C11: compare_versions returns -1, 0 or 1 by the numeric order of the parts,
\* the shorter version padded with zeros; compare("0.9.0","0.10.0") = -1,
\* compare("0.45.0","0.45.0") = 0, compare("1.0.0","0.9.9") = 1, and
\* compare(a,b) = -compare(b,a).
C11_CompareVersionsNumeric ==
    (ver # <<>> /\ ver.call = "compare_versions" /\ ver.done) =>
        /\ ver.raised = "none"
        /\ ver.cmp = (IF SameParts(ver.version, ver.other) THEN 0
                      ELSE IF PartsBefore(ver.version, ver.other) THEN -1 ELSE 1)
        /\ ver.cmp = 0 - ver.rev
        /\ (ver.version = V_0_9_0 /\ ver.other = V_0_10_0) => ver.cmp = -1
        /\ (ver.version = V_0_45_0 /\ ver.other = V_0_45_0) => ver.cmp = 0
        /\ (ver.version = V_1_0_0 /\ ver.other = V_0_9_9) => ver.cmp = 1

\* C11: "0.9.0" against "0.10.0" has been compared, and came out below.
C11_Witness ==
    /\ ver # <<>> /\ ver.call = "compare_versions" /\ ver.done
    /\ ver.version = V_0_9_0 /\ ver.other = V_0_10_0
    /\ ver.cmp = -1 /\ ver.rev = 1

\* A bound that is empty or made of numbers.
Bound(b) == b = EmptyText \/ can_parse(b)

\* C12: version_check returns True exactly when the version is a well-formed
\* N.N.N and min <= version <= max by the numeric order of the parts, a bound
\* with fewer parts padded with zeros and an empty bound not bounding; it
\* never raises.
C12_VersionCheckInRange ==
    (ver # <<>> /\ ver.call = "version_check" /\ ver.done
        /\ Bound(ver.other) /\ Bound(ver.max)) =>
        /\ ver.raised = "none"
        /\ ver.ok = ( /\ well_formed(ver.version)
                      /\ (ver.other = EmptyText \/ ~PartsBefore(ver.version, ver.other))
                      /\ (ver.max = EmptyText \/ ~PartsBefore(ver.max, ver.version)) )


(***************************************************************************)
(* Path resolution: get_cursor_paths and get_workbench_cursor_path of      *)
(* src/reset_machine_manual.py, get_workbench_cursor_path of               *)
(* src/bypass_token_limit.py.  A host is platform.system(), the cursor_path *)
(* option of the platform's section of config.ini ("no_file", "no_section" *)
(* and "no_option" when there is none) and, for each directory the         *)
(* resolvers look at, what is in it.  A path is <<directory, file>>.       *)
(***************************************************************************)
PackageJson == "package.json"
MainJs == "out/main.js"
WorkbenchJs == "out/vs/workbench/workbench.desktop.main.js"

\* What a directory holds: "absent" is no directory, "empty" a directory
\* without the files, "app" one with package.json and out/main.js only.
files_in(state) ==
    CASE state = "full" -> {PackageJson, MainJs, WorkbenchJs}
      [] state = "app" -> {PackageJson, MainJs}
      [] OTHER -> {}

\* os.path.exists of a directory and of a file in it.
dir_exists(h, d) == d \in DOMAIN h.dirs /\ h.dirs[d] # "absent"
file_exists(h, d, f) == d \in DOMAIN h.dirs /\ f \in files_in(h.dirs[d])

\* glob.glob of a pattern without wildcards: the path if it exists.
glob(h, d) == IF dir_exists(h, d) THEN <<d>> ELSE <<>>

DarwinBase == "/Applications/Cursor.app/Contents/Resources/app"
WindowsBase == "%LOCALAPPDATA%/Programs/Cursor/resources/app"
HomeSquashfs == "~/squashfs-root/usr/share/cursor/resources/app"
CwdSquashfs == "squashfs-root/usr/share/cursor/resources/app"
CustomPath == "/home/user/cursor/resources/app"

\* default_paths["Linux"] of get_cursor_paths after the two extends.
default_paths(h) ==
    <<"/opt/Cursor/resources/app", "/usr/share/cursor/resources/app",
      "~/.local/share/cursor/resources/app", "/usr/lib/cursor/app/">>
        \o glob(h, HomeSquashfs) \o glob(h, CwdSquashfs)

\* for path in paths: if os.path.exists(path): ... break -- the index of
\* the first existing directory, 0 when the loop ends without a break.
first_existing(h, paths) ==
    LET found == { i \in DOMAIN paths : dir_exists(h, paths[i]) }
    IN IF found = {} THEN 0 ELSE CHOOSE i \in found : \A j \in found : i <= j

\* The section of config.ini each platform reads; "" for the others.
SectionOf(system) ==
    CASE system = "Darwin" -> "MacPaths"
      [] system = "Windows" -> "WindowsPaths"
      [] system = "Linux" -> "LinuxPaths"
      [] OTHER -> ""

Unset == {"no_file", "no_section", "no_option"}

\* get_cursor_paths: the value [raised, paths, cursor_path], cursor_path
\* being the option as the call leaves it in config.ini.
get_cursor_paths(h) ==
    LET defaults == default_paths(h)
        first == first_existing(h, defaults)
        \* if not os.path.exists(config_file): the file is written with the
        \* three sections and the platform's default
        configured ==
            IF h.cursor_path # "no_file" THEN h.cursor_path
            ELSE CASE h.system = "Darwin" -> DarwinBase
                   [] h.system = "Windows" -> WindowsBase
                   [] h.system = "Linux" -> IF first = 0 THEN defaults[1] ELSE defaults[first]
                   [] OTHER -> "no_option"
        \* for Linux, a configured path that does not exist gives way to the
        \* first existing default, which is written to config.ini
        base_path ==
            IF h.system = "Linux" /\ configured \notin Unset
                  /\ ~dir_exists(h, configured) /\ first # 0
            THEN defaults[first] ELSE configured
        failed == [raised |-> "OSError", paths |-> {}, cursor_path |-> base_path]
    IN  IF SectionOf(h.system) = "" THEN failed
        ELSE IF configured \in Unset THEN failed
        ELSE IF ~dir_exists(h, base_path) THEN failed
        ELSE IF ~file_exists(h, base_path, PackageJson) THEN failed
        ELSE IF ~file_exists(h, base_path, MainJs) THEN failed
        ELSE [raised |-> "none",
              paths |-> {<<base_path, PackageJson>>, <<base_path, MainJs>>},
              cursor_path |-> base_path]

\* paths_map["Linux"]["bases"] before the extends.
LinuxBases == <<"/opt/Cursor/resources/app", "/usr/share/cursor/resources/app",
                "/usr/lib/cursor/app/">>

\* The body the two get_workbench_cursor_path share, bases being
\* paths_map["Linux"]["bases"] after the extends.
workbench_cursor_path(h, bases) ==
    LET hits == { i \in DOMAIN bases : file_exists(h, bases[i], WorkbenchJs) }
        hit == CHOOSE i \in hits : \A j \in hits : i <= j
        \* config.get raises for Windows without the section or the option
        raises ==
            IF h.system # "Windows" THEN "none"
            ELSE CASE h.cursor_path \in {"no_file", "no_section"} -> "NoSectionError"
                   [] h.cursor_path = "no_option" -> "NoOptionError"
                   [] OTHER -> "none"
        base_path ==
            CASE h.system = "Windows" -> h.cursor_path
              [] h.system = "Darwin" ->
                    IF h.cursor_path \in Unset THEN DarwinBase ELSE h.cursor_path
              [] OTHER -> IF h.cursor_path \in Unset THEN bases[1] ELSE h.cursor_path
    IN  IF SectionOf(h.system) = "" THEN [raised |-> "OSError", paths |-> {}]
        ELSE IF h.system = "Linux" /\ hits # {}
             THEN [raised |-> "none", paths |-> {<<bases[hit], WorkbenchJs>>}]
        ELSE IF raises # "none" THEN [raised |-> raises, paths |-> {}]
        ELSE IF ~file_exists(h, base_path, WorkbenchJs)
             THEN [raised |-> "OSError", paths |-> {}]
        ELSE [raised |-> "none", paths |-> {<<base_path, WorkbenchJs>>}]

\* get_workbench_cursor_path of reset_machine_manual.py.
get_workbench_cursor_path(h) ==
    workbench_cursor_path(h, LinuxBases \o glob(h, HomeSquashfs) \o glob(h, CwdSquashfs))

\* get_workbench_cursor_path of bypass_token_limit.py.
bypass_get_workbench_cursor_path(h) ==
    workbench_cursor_path(h, LinuxBases \o glob(h, HomeSquashfs))

Systems == {"Darwin", "Windows", "Linux", "Java"}

\* The directories the resolvers of a platform look at, and a custom one.
DirsOf(system) ==
    CASE system = "Darwin" -> {DarwinBase, CustomPath}
      [] system = "Windows" -> {WindowsBase, CustomPath}
      [] system = "Linux" -> {"/opt/Cursor/resources/app", "/usr/share/cursor/resources/app",
                              "~/.local/share/cursor/resources/app", "/usr/lib/cursor/app/",
                              HomeSquashfs, CwdSquashfs, CustomPath}
      [] OTHER -> {CustomPath}

\* The contents tried for a directory: all four for the custom directory
\* and the first default, there or not there for the others.
ContentsOf(d) ==
    IF d \in {CustomPath, DarwinBase, WindowsBase, "/opt/Cursor/resources/app"}
    THEN {"absent", "empty", "app", "full"}
    ELSE {"absent", "full"}

\* The values tried for cursor_path: none, the custom directory, the first
\* default and, on Linux, the default only get_cursor_paths knows.
OptionsOf(system) ==
    Unset \cup {CustomPath}
          \cup (CASE system = "Darwin" -> {DarwinBase}
                  [] system = "Windows" -> {WindowsBase}
                  [] system = "Linux" -> {"/opt/Cursor/resources/app",
                                          "~/.local/share/cursor/resources/app"}
                  [] OTHER -> {})

Hosts ==
    UNION { { [system |-> sys, cursor_path |-> o, dirs |-> ds] :
                o \in OptionsOf(sys),
                ds \in { f \in [DirsOf(sys) -> {"absent", "empty", "app", "full"}] :
                            \A d \in DirsOf(sys) : f[d] \in ContentsOf(d) } } :
            sys \in Systems }

PathInit ==
    /\ host \in Hosts
    /\ resolved = <<>>
    /\ IdIdle /\ PatchIdle /\ VerIdle /\ MainIdle /\ ProductIdle

Resolved(fn, r) ==
    resolved' = [fn |-> fn, override |-> host.cursor_path,
                 raised |-> r.raised, paths |-> r.paths]

GetCursorPaths ==
    /\ host # <<>>
    /\ LET r == get_cursor_paths(host) IN
          /\ Resolved("get_cursor_paths", r)
          /\ host' = [host EXCEPT !.cursor_path = r.cursor_path]
    /\ UNCHANGED <<idVars, patchVars, verVars, mainVars, productVars>>

GetWorkbenchCursorPath ==
    /\ host # <<>>
    /\ Resolved("get_workbench_cursor_path", get_workbench_cursor_path(host))
    /\ UNCHANGED <<host, idVars, patchVars, verVars, mainVars, productVars>>

BypassGetWorkbenchCursorPath ==
    /\ host # <<>>
    /\ Resolved("bypass.get_workbench_cursor_path", bypass_get_workbench_cursor_path(host))
    /\ UNCHANGED <<host, idVars, patchVars, verVars, mainVars, productVars>>

\* The paths of one reset_machine_ids: get_workbench_cursor_path, whose
\* OSError ends the reset, then get_cursor_paths inside check_cursor_version,
\* whose OSError only closes the version gate.
ResetPaths ==
    /\ host # <<>>
    /\ LET w == get_workbench_cursor_path(host)
           c == get_cursor_paths(host)
       IN  IF w.raised # "none"
           THEN Resolved("reset_machine_ids", w) /\ UNCHANGED host
           ELSE /\ Resolved("reset_machine_ids",
                            [raised |-> "none", paths |-> w.paths \cup c.paths])
                /\ host' = [host EXCEPT !.cursor_path = c.cursor_path]
    /\ UNCHANGED <<idVars, patchVars, verVars, mainVars, productVars>>

PathNext ==
    \/ GetCursorPaths \/ GetWorkbenchCursorPath \/ BypassGetWorkbenchCursorPath
    \/ ResetPaths

PathSpec == PathInit /\ [][PathNext]_vars

\* C15: when the configured cursor_path holds the required files, every
\* path a resolver returns lies under it, whatever the default directories
\* hold.
C15_OverrideTakesPrecedence ==
    (resolved # <<>> /\ resolved.override \notin Unset
        /\ host.dirs[resolved.override] = "full") =>
            \A path \in resolved.paths : path[1] = resolved.override

\* C29: the paths one reset resolves (workbench JS, package.json, main.js)
\* lie under one base directory.
C29_OneInstallation ==
    (resolved # <<>> /\ resolved.fn = "reset_machine_ids") =>
        \A p \in resolved.paths, q \in resolved.paths : p[1] = q[1]

(***************************************************************************)
(* The runs over the files on disk: reset (reset_machine_manual.py),       *)
(* restore (restore_machine_id.py) and the stand-alone workbench patch     *)
(* (bypass_token_limit.py).  The program is single-threaded; pc is the     *)
(* statement it is at.  A step that can fail (an OSError, a full disk, a   *)
(* locked database) draws its outcome; Interrupt ends the process between  *)
(* two steps.                                                              *)
(***************************************************************************)

MaxClock == 1
MaxRuns == 2
MaxFaults == 1

Stamps == 0..MaxClock

\* strftime("%Y%m%d_%H%M%S"): the backup names of one file, <<suffix, second>>.
BackupNames(suffixes) == suffixes \X Stamps
NoBackups(suffixes) == [n \in BackupNames(suffixes) |-> Missing]

\* Identity values are abstract: <<form, n>> is the value of that form drawn
\* in run n (0: the values the installation came with); Empty is "".
Empty == <<"", 0>>
new_ids(n) ==
    [k \in IdentityKeys |->
        CASE k = "telemetry.devDeviceId" -> <<"uuid4", n>>
          [] k = "telemetry.macMachineId" -> <<"sha512", n>>
          [] k = "telemetry.machineId" -> <<"sha256", n>>
          [] k = "telemetry.sqmId" -> <<"{UUID4}", n>>
          [] k = "storage.serviceMachineId" -> <<"uuid4", n>>]

\* A mutant of dict_update: the document replaced by the new values.
dict_replaced(d, u) == u

\* dict.update and dict.get.
dict_update(d, u) ==
    [k \in DOMAIN d \cup DOMAIN u |-> IF k \in DOMAIN u THEN u[k] ELSE d[k]]
dict_get(d, k, default) == IF k \in DOMAIN d THEN d[k] ELSE default

\* json.load of a file's text and json.dump(..., indent=4): the document is
\* kept, the layout of the text is not.
json_load(file) == file.data.doc
json_dump(doc) == File([doc |-> doc, fmt |-> "indent4"])

\* A mutant of copy2: the copy reports success and writes nothing.
copy2_lost(src, bak, name, outcome) == bak

\* shutil.copy2(src, dst) into the backups bak of a file: done, refused before
\* dst is opened, or failed half way with dst left truncated.
copy2(src, bak, name, outcome) ==
    CASE outcome = "ok" -> [bak EXCEPT ![name] = src]
      [] outcome = "partial" -> [bak EXCEPT ![name] = Partial]
      [] OTHER -> bak

\* open(path, "w") and a write: done, refused by open, or failed after the
\* file was truncated.
write_file(file, new, outcome) ==
    CASE outcome = "ok" -> new
      [] outcome = "partial" -> Partial
      [] OTHER -> file

\* The outcomes a step may draw: a failure only while the fault budget lasts.
Outcomes(failures) == {"ok"} \cup (IF faults < MaxFaults THEN failures ELSE {})
Drawn(outcome) == faults' = IF outcome = "ok" THEN faults ELSE faults + 1

Goto(label) == pc' = label
Return(value) == pc' = "done" /\ run' = [run EXCEPT !.result = value]

Start(op, label) ==
    /\ pc \in {"idle", "done"}
    /\ runs < MaxRuns
    /\ runs' = runs + 1
    /\ run' = [NoRun EXCEPT !.op = op,
                             !.start = [storage |-> storage, sqlite |-> sqlite,
                                        machineId |-> machineId, appFile |-> appFile]]
    /\ pc' = label
    /\ UNCHANGED <<pureVars, env, diskVars, clock, faults>>

\* run(): config = get_config(translator); if not config: return False
GetConfig ==
    /\ pc \in {"r_config", "s_config", "b_config"}
    /\ \E config \in BOOLEAN :
          IF config
          THEN /\ Goto(CASE pc = "r_config" -> "r_init"
                         [] pc = "s_config" -> "s_init"
                         [] pc = "b_config" -> "b_path")
               /\ UNCHANGED run
          ELSE Return("False")
    /\ UNCHANGED <<pureVars, env, diskVars, clock, runs, faults>>

\* What stops __init__ before it has its paths: the exception it raises,
\* "none" when it goes through.  MachineIDResetter adds a missing section
\* with the default paths; MachineIDRestorer raises ConfigError.
init_raises(op, e) ==
    CASE e.ini = "missing" -> "FileNotFoundError"
      [] e.ini # "missing" /\ e.platform = "win32" /\ ~e.appdata -> "EnvironmentError"
      [] e.ini # "missing" /\ e.platform = "other" -> "NotImplementedError"
      [] OTHER -> IF e.ini = "no_section" /\ op = "restore" THEN "ConfigError"
                  ELSE IF e.ini = "no_option" THEN "NoOptionError"
                  ELSE "none"

\* run(): resetter = MachineIDResetter(translator), outside any try.  The
\* constructor ends by writing config.ini back.
ResetInit ==
    /\ pc = "r_init"
    /\ IF init_raises("reset", env) # "none"
       THEN /\ pc' = "done"
            /\ run' = [run EXCEPT !.result = "raised", !.pathError = TRUE]
            /\ UNCHANGED <<env, faults>>
       ELSE \E o \in Outcomes({"denied"}) :
              /\ Drawn(o)
              /\ IF o = "ok"
                 THEN env' = [env EXCEPT !.ini = "ok"] /\ Goto("r_check") /\ UNCHANGED run
                 ELSE UNCHANGED env /\ Return("raised")
    /\ UNCHANGED <<pureVars, diskVars, clock, runs>>

\* run(): resetter.reset_machine_ids()
StartReset == Start("reset", "r_config")

\* reset_machine_ids: os.path.exists, os.access, json.load of storage.json.
ResetCheck ==
    /\ pc = "r_check"
    /\ IF storage.kind = "file"
       THEN /\ run' = [run EXCEPT !.config = json_load(storage)]
            /\ Goto("r_backup")
       ELSE Return("False")
    /\ UNCHANGED <<pureVars, env, diskVars, clock, runs, faults>>

\* reset_machine_ids: shutil.copy2(self.db_path, f"{self.db_path}.bak.{timestamp}")
ResetBackup ==
    /\ pc = "r_backup"
    /\ \E o \in Outcomes({"denied", "partial"}) :
          /\ Drawn(o)
          /\ storageBak' = copy2(storage, storageBak, <<"bak", clock>>, o)
          /\ IF o = "ok" THEN Goto("r_generate") /\ UNCHANGED run ELSE Return("False")
    /\ UNCHANGED <<pureVars, env, jsVars, storage, sqlite, machineId, machineIdBak,
                   sysStore, clock, runs>>

\* A mutant of ResetGenerate: the generator commits the values to
\* storage.json itself.
ResetGenerate_commits ==
    /\ pc = "r_generate"
    /\ run' = [run EXCEPT !.ids = new_ids(runs)]
    /\ storage' = json_dump(dict_update(run.config, new_ids(runs)))
    /\ Goto("m_backup")
    /\ UNCHANGED <<pureVars, env, jsVars, storageBak, sqlite, machineId, machineIdBak,
                   sysStore, clock, runs, faults>>

\* generate_new_ids: the fresh values; it goes on to update_machine_id_file.
ResetGenerate ==
    /\ pc = "r_generate"
    /\ run' = [run EXCEPT !.ids = new_ids(runs)]
    /\ Goto("m_backup")
    /\ UNCHANGED <<pureVars, env, diskVars, clock, runs, faults>>

\* update_machine_id_file is left for the next statement of its caller.
AfterMachineIdFile == IF run.op = "reset" THEN "r_write" ELSE "s_sys"

\* update_machine_id_file: the backup of an existing marker file; a failure is
\* printed and the write goes ahead.  Reset names it .backup.<ts>, restore
\* .restore_bak.<ts>.
MachineIdBackup ==
    /\ pc = "m_backup"
    /\ IF machineId.kind = "missing"
       THEN UNCHANGED <<machineIdBak, faults>>
       ELSE \E o \in Outcomes({"denied", "partial"}) :
              /\ Drawn(o)
              /\ machineIdBak' =
                    copy2(machineId, machineIdBak,
                          <<IF run.op = "reset" THEN "backup" ELSE "restore_bak", clock>>, o)
    /\ Goto("m_write")
    /\ UNCHANGED <<pureVars, env, jsVars, storage, storageBak, sqlite, machineId,
                   sysStore, clock, run, runs>>

\* update_machine_id_file: f.write(machine_id); its return value is dropped
\* by both callers.
MachineIdWrite ==
    /\ pc = "m_write"
    /\ \E o \in Outcomes({"denied", "partial"}) :
          /\ Drawn(o)
          /\ machineId' =
                write_file(machineId,
                           File(dict_get(run.ids, "telemetry.devDeviceId", Empty)), o)
    /\ Goto(AfterMachineIdFile)
    /\ UNCHANGED <<pureVars, env, jsVars, storage, storageBak, sqlite, machineIdBak,
                   sysStore, clock, run, runs>>

\* A mutant of ResetWrite: a failed json.dump does not end the reset.
ResetWrite_continues ==
    /\ pc = "r_write"
    /\ \E o \in Outcomes({"denied", "partial"}) :
          /\ Drawn(o)
          /\ storage' = write_file(storage, json_dump(dict_update(run.config, run.ids)), o)
          /\ Goto("db_connect") /\ UNCHANGED run
    /\ UNCHANGED <<pureVars, env, jsVars, storageBak, sqlite, machineId, machineIdBak,
                   sysStore, clock, runs>>

\* reset_machine_ids: config.update(new_ids); json.dump(config, f, indent=4)
ResetWrite ==
    /\ pc = "r_write"
    /\ \E o \in Outcomes({"denied", "partial"}) :
          /\ Drawn(o)
          /\ storage' = write_file(storage, json_dump(dict_update(run.config, run.ids)), o)
          /\ IF o = "ok" THEN Goto("db_connect") /\ UNCHANGED run ELSE Return("False")
    /\ UNCHANGED <<pureVars, env, jsVars, storageBak, sqlite, machineId, machineIdBak,
                   sysStore, clock, runs>>


(***************************************************************************)
(* update_sqlite_db, the same statements in both files.  sqlite is what a  *)
(* reader of the database file sees: the committed state.  Python's        *)
(* sqlite3 module runs CREATE TABLE in autocommit mode and opens a         *)
(* transaction before the first INSERT OR REPLACE; the rows written in it  *)
(* are run.txn until conn.commit(), and are dropped when the connection    *)
(* goes away without a commit.                                             *)
(***************************************************************************)

\* for key, value in ids.items(): the order of the dictionary literal.
IdOrder ==
    << "telemetry.devDeviceId", "telemetry.macMachineId", "telemetry.machineId",
       "telemetry.sqmId", "storage.serviceMachineId" >>

Database(table, rows) == File([table |-> table, rows |-> rows])

\* update_sqlite_db is left for the next statement of its caller, which does
\* not look at what it returned.
AfterSqlite == IF run.op = "reset" THEN "r_sys" ELSE "m_backup"
\* run.rolled: the rows of the transaction a failing call leaves uncommitted.
SqliteReturn(value) ==
    /\ pc' = AfterSqlite
    /\ run' = [run EXCEPT !.dbOk = value, !.txn = <<>>,
                          !.rolled = IF value = "False"
                                     THEN Cardinality(DOMAIN run.txn) ELSE 0]

\* restore only: if not os.path.exists(self.sqlite_path): return False.
\* sqlite3.connect(self.sqlite_path) creates the file when there is none.
SqliteConnect ==
    /\ pc = "db_connect"
    /\ IF run.op = "restore" /\ sqlite.kind = "missing"
       THEN /\ pc' = AfterSqlite
            /\ run' = [run EXCEPT !.dbOk = "False", !.dbBefore = sqlite]
            /\ UNCHANGED <<sqlite, faults>>
       ELSE \E o \in Outcomes({"denied"}) :
              /\ Drawn(o)
              /\ IF o = "ok"
                 THEN /\ sqlite' = IF sqlite.kind = "missing"
                                   THEN Database(FALSE, <<>>) ELSE sqlite
                      /\ run' = [run EXCEPT !.dbOk = "open", !.dbBefore = sqlite]
                      /\ Goto("db_create")
                 ELSE /\ pc' = AfterSqlite
                      /\ run' = [run EXCEPT !.dbOk = "False", !.dbBefore = sqlite]
                      /\ UNCHANGED sqlite
    /\ UNCHANGED <<pureVars, env, jsVars, storage, storageBak, machineId,
                   machineIdBak, sysStore, clock, runs>>

\* CREATE TABLE IF NOT EXISTS ItemTable: committed as it runs.
SqliteCreateTable ==
    /\ pc = "db_create"
    /\ \E o \in Outcomes({"denied"}) :
          /\ Drawn(o)
          /\ IF o = "ok" /\ sqlite.kind = "file"
             THEN /\ sqlite' = Database(TRUE, sqlite.data.rows)
                  /\ Goto("db_upsert")
                  /\ UNCHANGED run
             ELSE SqliteReturn("False") /\ UNCHANGED sqlite
    /\ UNCHANGED <<pureVars, env, jsVars, storage, storageBak, machineId,
                   machineIdBak, sysStore, clock, runs>>

\* A mutant of upsert: a connection in autocommit mode, each row committed
\* as it is written.
upsert_autocommit(db, txn, key, value) ==
    [db |-> Database(db.data.table, dict_update(db.data.rows, [k \in {key} |-> value])),
     txn |-> txn]

\* INSERT OR REPLACE INTO ItemTable (key, value): a row of the open transaction.
upsert(db, txn, key, value) ==
    [db |-> db, txn |-> dict_update(txn, [k \in {key} |-> value])]

\* The loop over ids.items(), one row a step; any row may fail.
SqliteUpsert ==
    /\ pc = "db_upsert"
    /\ LET i == Cardinality(DOMAIN run.txn) + 1 IN
       \E o \in Outcomes({"denied"}) :
          /\ Drawn(o)
          /\ IF o = "ok" /\ sqlite.kind = "file"
             THEN LET r == upsert(sqlite, run.txn, IdOrder[i], run.ids[IdOrder[i]]) IN
                  /\ sqlite' = r.db
                  /\ run' = [run EXCEPT !.txn = r.txn]
                  /\ Goto(IF i = Len(IdOrder) THEN "db_commit" ELSE "db_upsert")
             ELSE SqliteReturn("False") /\ UNCHANGED sqlite
    /\ UNCHANGED <<pureVars, env, jsVars, storage, storageBak, machineId,
                   machineIdBak, sysStore, clock, runs>>

\* conn.commit(): the rows of the transaction, at once.
SqliteCommit ==
    /\ pc = "db_commit"
    /\ \E o \in Outcomes({"denied"}) :
          /\ Drawn(o)
          /\ IF o = "ok" /\ sqlite.kind = "file"
             THEN /\ sqlite' = Database(sqlite.data.table,
                                        dict_update(sqlite.data.rows, run.txn))
                  /\ SqliteReturn("True")
             ELSE SqliteReturn("False") /\ UNCHANGED sqlite
    /\ UNCHANGED <<pureVars, env, jsVars, storage, storageBak, machineId,
                   machineIdBak, sysStore, clock, runs>>

\* A mutant of ResetSystemIds: a failing update ends the reset.
ResetSystemIds_fatal ==
    /\ pc = "r_sys"
    /\ \E o \in Outcomes({"denied"}) :
          /\ Drawn(o)
          /\ sysStore' = IF o = "ok" THEN <<"reset", runs>> ELSE sysStore
          /\ run' = [run EXCEPT !.sysOk = IF o = "ok" THEN "True" ELSE "False",
                                !.result = IF o = "ok" THEN @ ELSE "False"]
          /\ pc' = IF o = "ok" THEN "r_wbpath" ELSE "done"
    /\ UNCHANGED <<pureVars, env, jsVars, storage, storageBak, sqlite, machineId,
                   machineIdBak, clock, runs>>

\* update_system_ids (reset): fresh registry GUIDs on Windows, the plist UUID
\* on macOS; an exception is printed and False returned, which the caller
\* drops.
ResetSystemIds ==
    /\ pc = "r_sys"
    /\ \E o \in Outcomes({"denied"}) :
          /\ Drawn(o)
          /\ sysStore' = IF o = "ok" THEN <<"reset", runs>> ELSE sysStore
          /\ run' = [run EXCEPT !.sysOk = IF o = "ok" THEN "True" ELSE "False"]
    /\ Goto("r_wbpath")
    /\ UNCHANGED <<pureVars, env, jsVars, storage, storageBak, sqlite, machineId,
                   machineIdBak, clock, runs>>


(***************************************************************************)
(* The patch engine: modify_workbench_js (both files) and modify_main_js.  *)
(* The three functions are the same statements but for the rules, the      *)
(* backup suffix, the os.remove before the move (workbench only) and the   *)
(* guard around the cleanup; run.target says which file is being patched.  *)
(***************************************************************************)

GetMachineId == "async getMachineId(){return "
GetMacMachineId == "async getMacMachineId(){return "

\* The first position after from where chunk c stands, 0 when there is none.
RECURSIVE find(_, _, _)
find(s, c, from) ==
    IF from > Len(s) THEN 0
    ELSE IF s[from] = c THEN from ELSE find(s, c, from + 1)

\* re.sub(head [^?]+ \?\? ([^}]+) \}, head \1 }, content) on chunks: "??" is
\* the only chunk holding a question mark, "}" the only one holding a closing
\* brace.
RECURSIVE re_sub_return(_, _)
re_sub_return(s, head) ==
    IF s = <<>> THEN <<>>
    ELSE LET q == IF Head(s) = head THEN find(s, "??", 2) ELSE 0
             b == IF q >= 3 THEN find(s, "}", q + 1) ELSE 0
         IN  IF b >= q + 2 /\ q >= 3
             THEN <<head>> \o SubSeq(s, q + 1, b - 1) \o <<"}">>
                  \o re_sub_return(SubSeq(s, b + 1, Len(s)), head)
             ELSE <<Head(s)>> \o re_sub_return(Tail(s), head)

\* modify_main_js: the two patterns in turn.
patch_main(content) == re_sub_return(re_sub_return(content, GetMachineId), GetMacMachineId)

\* What the patch of the target writes to the temporary file.
patched(target, rules, content) ==
    IF target = "workbench" THEN patch_workbench(content, rules) ELSE patch_main(content)

BackupSuffix(target) == IF target = "workbench" THEN "backup" ELSE "old"

\* os.stat of the files the installer put in place, and of a file made by
\* NamedTemporaryFile: mode 0600, owned by the user who runs the program.
InstalledStat == [mode |-> "0644", owner |-> "root"]
TemporaryStat == [mode |-> "0600", owner |-> "user"]

\* os.chmod(file_path, original_mode)
chmod(stat, mode) == [stat EXCEPT !.mode = mode]
\* if os.name != "nt": os.chown(file_path, original_uid, original_gid)
chown(stat, owner) == IF env.platform = "win32" THEN stat ELSE [stat EXCEPT !.owner = owner]

\* A mutant of JsReturn: the system identifiers are updated after the
\* workbench patch.
JsReturn_then_sys(value) ==
    /\ run' = [run EXCEPT !.jsOk = value,
                          !.result = IF run.op = "bypass" THEN "None" ELSE @]
    /\ pc' = IF run.op = "bypass" THEN "done"
             ELSE IF run.target = "workbench" THEN "r_sys" ELSE "r_done"

\* modify_workbench_js / modify_main_js is left: reset drops the value, and
\* run() of bypass_token_limit returns nothing.
JsReturn(value) ==
    /\ run' = [run EXCEPT !.jsOk = value,
                          !.result = IF run.op = "bypass" THEN "None" ELSE @]
    /\ pc' = IF run.op = "bypass" THEN "done"
             ELSE IF run.target = "workbench" THEN "r_version" ELSE "r_done"

\* os.stat(file_path) and tempfile.NamedTemporaryFile(delete=False): the
\* temporary file exists from here on, empty.
JsOpen ==
    /\ pc = "js_open"
    /\ \E o \in Outcomes({"denied"}) :
          /\ Drawn(o)
          /\ IF o = "ok" /\ appFile[run.target].kind # "missing"
             THEN tmpFile' = File(<<>>) /\ Goto("js_fill")
             ELSE UNCHANGED tmpFile /\ Goto("js_except")
    /\ run' = [run EXCEPT !.orig = appFile[run.target], !.tmpSet = FALSE, !.jsOk = "none",
                          !.stat = appStat[run.target]]
    /\ UNCHANGED <<pureVars, env, idStoreVars, appFile, appBak, packageJson, appStat,
                   clock, runs>>

\* main_file.read(), the replacements, tmp_file.write(content), and only
\* then tmp_path = tmp_file.name.
JsFill ==
    /\ pc = "js_fill"
    /\ \E o \in Outcomes({"denied", "partial"}) :
          /\ Drawn(o)
          /\ tmpFile' =
                write_file(tmpFile,
                           IF appFile[run.target].kind = "file"
                           THEN File(patched(run.target, run.rules,
                                             appFile[run.target].data))
                           ELSE appFile[run.target], o)
          /\ IF o = "ok"
             THEN run' = [run EXCEPT !.tmpSet = TRUE] /\ Goto("js_backup")
             ELSE UNCHANGED run /\ Goto("js_except")
    /\ UNCHANGED <<pureVars, env, idStoreVars, appFile, appBak, packageJson, appStat,
                   clock, runs>>

\* shutil.copy2(file_path, f"{file_path}.backup.{timestamp}") (.old. for main.js)
JsBackup ==
    /\ pc = "js_backup"
    /\ \E o \in Outcomes({"denied", "partial"}) :
          /\ Drawn(o)
          /\ appBak' = copy2(appFile[run.target], appBak,
                             <<run.target, BackupSuffix(run.target), clock>>, o)
          /\ Goto(IF o # "ok" THEN "js_except"
                  ELSE IF run.target = "workbench" THEN "js_remove" ELSE "js_move")
    /\ UNCHANGED <<pureVars, env, idStoreVars, appFile, packageJson, appStat, tmpFile,
                   clock, run, runs>>

\* modify_workbench_js only: if os.path.exists(file_path): os.remove(file_path)
JsRemove ==
    /\ pc = "js_remove"
    /\ \E o \in Outcomes({"denied"}) :
          /\ Drawn(o)
          /\ IF o = "ok"
             THEN appFile' = [appFile EXCEPT ![run.target] = Missing] /\ Goto("js_move")
             ELSE UNCHANGED appFile /\ Goto("js_except")
    /\ UNCHANGED <<pureVars, env, idStoreVars, appBak, packageJson, appStat, tmpFile,
                   clock, run, runs>>

\* shutil.move(tmp_path, file_path): os.rename, or, from another file system
\* (the temporary directory), a copy that may stop half way, then an unlink.
JsMove ==
    /\ pc = "js_move"
    /\ \E o \in Outcomes({"denied", "partial"}) :
          /\ Drawn(o)
          /\ appFile' = [appFile EXCEPT ![run.target] = write_file(@, tmpFile, o)]
          /\ appStat' = IF o = "denied" THEN appStat
                        ELSE [appStat EXCEPT ![run.target] = TemporaryStat]
          /\ IF o = "ok"
             THEN tmpFile' = Missing /\ Goto("js_chmod")
             ELSE UNCHANGED tmpFile /\ Goto("js_except")
    /\ UNCHANGED <<pureVars, env, idStoreVars, appBak, packageJson, clock, run, runs>>

\* A mutant of JsChmod: True is returned with the file as the move left it.
JsChmod_skipped ==
    /\ pc = "js_chmod"
    /\ JsReturn("True")
    /\ UNCHANGED <<pureVars, env, diskVars, clock, runs, faults>>

\* os.chmod and, off Windows, os.chown; then return True.  Either call may
\* raise: chmod before anything changed, chown with the mode already set.
JsChmod ==
    /\ pc = "js_chmod"
    /\ \E o \in Outcomes({"denied"}) :
          /\ Drawn(o)
          /\ IF o = "ok"
             THEN /\ appStat' = [appStat EXCEPT ![run.target] =
                                    chown(chmod(@, run.stat.mode), run.stat.owner)]
                  /\ JsReturn("True")
             ELSE /\ \E call \in {"chmod", "chown"} :
                        appStat' = IF call = "chmod" \/ env.platform = "win32" THEN appStat
                                   ELSE [appStat EXCEPT ![run.target] =
                                            chmod(@, run.stat.mode)]
                  /\ Goto("js_except") /\ UNCHANGED run
    /\ UNCHANGED <<pureVars, env, idStoreVars, appFile, appBak, packageJson, tmpFile,
                   clock, runs>>

\* except Exception: if "tmp_path" in locals(): os.unlink(tmp_path); return
\* False.  (modify_main_js lets a failing unlink escape to its caller, which
\* returns False as well.)
JsExcept ==
    /\ pc = "js_except"
    /\ tmpFile' = IF run.tmpSet THEN Missing ELSE tmpFile
    /\ JsReturn("False")
    /\ UNCHANGED <<pureVars, env, idStoreVars, appFile, appBak, packageJson, appStat,
                   clock, runs, faults>>


(***************************************************************************)
(* reset_machine_ids after the stores: the workbench patch, the version    *)
(* gate and the main.js patch.                                             *)
(***************************************************************************)

\* check_cursor_version: min_ver = (0, 45, 0)
MinVersion == <<0, 45, 0>>

\* get_cursor_paths: package.json and out/main.js must exist, or OSError.
cursor_paths_found == packageJson.kind # "missing" /\ appFile["main"].kind # "missing"

\* check_cursor_version: True when package.json holds a well-formed version
\* not below 0.45.0; every failure is False.
check_cursor_version ==
    /\ cursor_paths_found
    /\ packageJson.kind = "file"
    /\ well_formed(packageJson.data)
    /\ ~tuple_lt(parse_version(packageJson.data), MinVersion)

\* get_workbench_cursor_path raises OSError when the file is not there; the
\* except of reset_machine_ids returns False.
ResetWorkbenchPath ==
    /\ pc = "r_wbpath"
    /\ IF appFile["workbench"].kind = "missing"
       THEN pc' = "done" /\ run' = [run EXCEPT !.result = "False", !.pathError = TRUE]
       ELSE /\ run' = [run EXCEPT !.target = "workbench", !.rules = "reset"]
            /\ Goto("js_open")
    /\ UNCHANGED <<pureVars, env, diskVars, clock, runs, faults>>

\* greater_than_0_45 = check_cursor_version(self.translator)
ResetVersionGate ==
    /\ pc = "r_version"
    /\ Goto(IF check_cursor_version THEN "p_check" ELSE "r_done")
    /\ UNCHANGED <<pureVars, env, diskVars, clock, run, runs, faults>>

\* patch_cursor_get_machine_id: the paths, the write permission, the version
\* read again and version_check(version, min_version="0.45.0").
PatchCheck ==
    /\ pc = "p_check"
    /\ \E o \in Outcomes({"denied"}) :
          /\ Drawn(o)
          /\ Goto(IF o = "ok" /\ cursor_paths_found /\ packageJson.kind = "file"
                     /\ version_check(packageJson.data, V_0_45_0, EmptyText, TRUE).value
                  THEN "p_backup" ELSE "r_done")
    /\ UNCHANGED <<pureVars, env, diskVars, clock, run, runs>>

\* patch_cursor_get_machine_id: main.js.bak.<ts>, unless that name exists;
\* then modify_main_js is called (run.target, with no result yet).  A
\* failing copy is caught and returns False.
PatchBackup ==
    /\ pc = "p_backup"
    /\ IF appBak[<<"main", "bak", clock>>].kind # "missing"
       THEN /\ UNCHANGED <<appBak, faults>>
            /\ run' = [run EXCEPT !.target = "main", !.jsOk = "none", !.stat = <<>>]
            /\ Goto("js_open")
       ELSE \E o \in Outcomes({"denied", "partial"}) :
              /\ Drawn(o)
              /\ appBak' = copy2(appFile["main"], appBak, <<"main", "bak", clock>>, o)
              /\ run' = IF o = "ok"
                         THEN [run EXCEPT !.target = "main", !.jsOk = "none", !.stat = <<>>]
                         ELSE run
              /\ Goto(IF o = "ok" THEN "js_open" ELSE "r_done")
    /\ UNCHANGED <<pureVars, env, idStoreVars, appFile, packageJson, appStat, tmpFile,
                   clock, runs>>

\* reset_machine_ids: the success message and return True.
ResetDone ==
    /\ pc = "r_done"
    /\ Return("True")
    /\ UNCHANGED <<pureVars, env, diskVars, clock, runs, faults>>

(***************************************************************************)
(* bypass_token_limit.run: modify_workbench_js(get_workbench_cursor_path())*)
(***************************************************************************)

StartBypass == Start("bypass", "b_config")

\* get_workbench_cursor_path raises OSError when the file is not there, and
\* run() has no handler for it.
BypassWorkbenchPath ==
    /\ pc = "b_path"
    /\ IF appFile["workbench"].kind = "missing"
       THEN pc' = "done" /\ run' = [run EXCEPT !.result = "raised", !.pathError = TRUE]
       ELSE /\ run' = [run EXCEPT !.target = "workbench", !.rules = "bypass"]
            /\ Goto("js_open")
    /\ UNCHANGED <<pureVars, env, diskVars, clock, runs, faults>>


(***************************************************************************)
(* restore_machine_ids (restore_machine_id.py)                             *)
(***************************************************************************)

StartRestore == Start("restore", "s_config")

\* run(): restorer = MachineIDRestorer(translator), outside any try.
RestoreInit ==
    /\ pc = "s_init"
    /\ IF init_raises("restore", env) # "none"
       THEN pc' = "done" /\ run' = [run EXCEPT !.result = "raised", !.pathError = TRUE]
       ELSE Goto("s_select") /\ UNCHANGED run
    /\ UNCHANGED <<pureVars, env, diskVars, clock, runs, faults>>

\* A mutant of backup_pattern: the suffix of the patched files' backups.
backup_pattern_backup == <<"backup", "*">>

\* glob.glob(os.path.join(db_dir, f"{db_name}.bak.*")) over the names
\* <<suffix, timestamp>> of the files beside storage.json.
backup_pattern == <<"bak", "*">>
fnmatch(name, pattern) ==
    /\ Len(name) = Len(pattern)
    /\ \A i \in 1..Len(pattern) : pattern[i] = "*" \/ pattern[i] = name[i]
glob_backups ==
    { n \in DOMAIN storageBak : storageBak[n].kind # "missing" /\ fnmatch(n, backup_pattern) }

\* find_backups: the timestamps of the files the glob matches.
find_backups == { n[2] : n \in glob_backups }

\* select_backup: no backup, the user's 0 (here -1), or one of the list.
RestoreSelect ==
    /\ pc = "s_select"
    /\ IF find_backups = {}
       THEN Return("False")
       ELSE \E choice \in find_backups \cup {-1} :
              IF choice = -1
              THEN Return("False")
              ELSE run' = [run EXCEPT !.sel = choice] /\ Goto("s_extract")
    /\ UNCHANGED <<pureVars, env, diskVars, clock, runs, faults>>

\* A mutant of extract_ids: serviceMachineId without its fallback.
extract_ids_no_fallback(backup_data) ==
    [k \in IdentityKeys |-> dict_get(backup_data, k, Empty)]

\* extract_ids_from_backup: backup_data.get(key, ""), serviceMachineId
\* falling back to devDeviceId.
extract_ids(backup_data) ==
    [k \in IdentityKeys |->
        IF k = "storage.serviceMachineId"
        THEN dict_get(backup_data, k, dict_get(backup_data, "telemetry.devDeviceId", Empty))
        ELSE dict_get(backup_data, k, Empty)]

\* ids = self.extract_ids_from_backup(backup_path); a backup json.load
\* cannot read gives None.
RestoreExtract ==
    /\ pc = "s_extract"
    /\ IF storageBak[<<"bak", run.sel>>].kind = "file"
       THEN LET ids == extract_ids(json_load(storageBak[<<"bak", run.sel>>])) IN
            /\ run' = [run EXCEPT !.ids = ids,
                                  !.warned = { k \in IdentityKeys : ids[k] = Empty }]
            /\ Goto("s_confirm")
       ELSE Return("False")
    /\ UNCHANGED <<pureVars, env, diskVars, clock, runs, faults>>

\* A mutant of RestoreConfirm: the answer is not looked at.
RestoreConfirm_ignored ==
    /\ pc = "s_confirm"
    /\ \E yes \in BOOLEAN :
          Goto("s_read") /\ run' = [run EXCEPT !.confirmed = yes]
    /\ UNCHANGED <<pureVars, env, diskVars, clock, runs, faults>>

\* confirm = input(...); anything but y cancels.
RestoreConfirm ==
    /\ pc = "s_confirm"
    /\ \E yes \in BOOLEAN :
          IF yes THEN Goto("s_read") /\ run' = [run EXCEPT !.confirmed = TRUE]
          ELSE Return("False")
    /\ UNCHANGED <<pureVars, env, diskVars, clock, runs, faults>>

\* update_current_file: os.path.exists and json.load of storage.json.
RestoreRead ==
    /\ pc = "s_read"
    /\ IF storage.kind = "file"
       THEN /\ run' = [run EXCEPT !.config = json_load(storage)]
            /\ Goto("s_backup")
       ELSE Return("False")
    /\ UNCHANGED <<pureVars, env, diskVars, clock, runs, faults>>

\* update_current_file: shutil.copy2(self.db_path, ....restore_bak.<ts>)
RestoreBackup ==
    /\ pc = "s_backup"
    /\ \E o \in Outcomes({"denied", "partial"}) :
          /\ Drawn(o)
          /\ storageBak' = copy2(storage, storageBak, <<"restore_bak", clock>>, o)
          /\ IF o = "ok" THEN Goto("s_write") /\ UNCHANGED run ELSE Return("False")
    /\ UNCHANGED <<pureVars, env, jsVars, storage, sqlite, machineId, machineIdBak,
                   sysStore, clock, runs>>

\* update_current_file: current_data.update(ids); json.dump(..., indent=4)
RestoreWrite ==
    /\ pc = "s_write"
    /\ \E o \in Outcomes({"denied", "partial"}) :
          /\ Drawn(o)
          /\ storage' = write_file(storage, json_dump(dict_update(run.config, run.ids)), o)
          /\ IF o = "ok" THEN Goto("db_connect") /\ UNCHANGED run ELSE Return("False")
    /\ UNCHANGED <<pureVars, env, jsVars, storageBak, sqlite, machineId, machineIdBak,
                   sysStore, clock, runs>>

\* update_system_ids (restore): the registry / plist values from the backup,
\* every failure printed; then return True.
RestoreSystemIds ==
    /\ pc = "s_sys"
    /\ \E o \in Outcomes({"denied"}) :
          /\ Drawn(o)
          /\ sysStore' = IF o = "ok" THEN <<"restore", run.sel>> ELSE sysStore
          /\ pc' = "done"
          /\ run' = [run EXCEPT !.result = "True",
                                !.sysOk = IF o = "ok" THEN "True" ELSE "False"]
    /\ UNCHANGED <<pureVars, env, jsVars, storage, storageBak, sqlite, machineId,
                   machineIdBak, clock, runs>>

(***************************************************************************)
(* The environment                                                         *)
(***************************************************************************)

\* A second passes.
Tick ==
    /\ clock < MaxClock
    /\ clock' = clock + 1
    /\ UNCHANGED <<pureVars, env, diskVars, pc, run, runs, faults>>

\* The process is killed between two steps: nothing more runs, no handler,
\* and an open transaction is never committed.
Interrupt ==
    /\ pc \notin {"idle", "done"}
    /\ faults < MaxFaults
    /\ faults' = faults + 1
    /\ pc' = "done"
    /\ run' = [run EXCEPT !.result = "killed", !.txn = <<>>]
    /\ UNCHANGED <<pureVars, env, diskVars, clock, runs>>

\* The installations the runs start from.
OldDoc ==
    [k \in IdentityKeys \cup {"foo"} |-> IF k = "foo" THEN <<"bar", 0>> ELSE new_ids(0)[k]]
BareDoc == [k \in {"foo"} |-> <<"bar", 0>>]
DevDoc ==
    [k \in {"foo", "telemetry.devDeviceId", "telemetry.sqmId"} |->
        IF k = "foo" THEN <<"bar", 0>>
        ELSE IF k = "telemetry.sqmId" THEN Empty ELSE new_ids(0)[k]]
OldRows == [k \in IdentityKeys \cup {"other.key"} |->
                IF k = "other.key" THEN <<"kept", 0>> ELSE new_ids(0)[k]]

\* The installation every file of which is in place, under another platform
\* or config.ini.
Complete(e) ==
    [storage |-> File([doc |-> OldDoc, fmt |-> "app"]),
     sqlite |-> Database(TRUE, OldRows),
     machineId |-> File(new_ids(0)["telemetry.devDeviceId"]),
     workbench |-> File(<<"x", "notifications-toasts">>),
     main |-> File(<<GetMachineId, "a", "??", "b", "}", "x">>),
     package |-> File(V_0_45_0), env |-> e]

Environments ==
    { [platform |-> "darwin", appdata |-> TRUE, ini |-> "no_section"],
      [platform |-> "linux", appdata |-> TRUE, ini |-> "no_option"],
      [platform |-> "linux", appdata |-> TRUE, ini |-> "missing"],
      [platform |-> "win32", appdata |-> FALSE, ini |-> "ok"],
      [platform |-> "other", appdata |-> TRUE, ini |-> "ok"] }

Installations ==
    { Complete(e) : e \in Environments } \cup
    { [storage |-> File([doc |-> OldDoc, fmt |-> "app"]),
       sqlite |-> Database(TRUE, OldRows),
       machineId |-> File(new_ids(0)["telemetry.devDeviceId"]),
       workbench |-> File(<<"x", "notifications-toasts">>),
       main |-> File(<<GetMachineId, "a", "??", "b", "}", "x">>),
       package |-> File(V_0_45_0), env |-> NoEnv],
      [storage |-> File([doc |-> OldDoc, fmt |-> "indent4"]),
       sqlite |-> Missing,
       machineId |-> Missing,
       workbench |-> File(<<BtnB[1], "<div>Pro", " Trial">>),
       main |-> File(<<"x">>),
       package |-> File(<< <<"0">>, <<"4", "4">>, <<"9">> >>), env |-> NoEnv],
      [storage |-> File([doc |-> BareDoc, fmt |-> "app"]),
       sqlite |-> Database(FALSE, <<>>),
       machineId |-> File(new_ids(0)["telemetry.devDeviceId"]),
       workbench |-> File(<<"x">>),
       main |-> File(<<GetMachineId, "a", "??", "b", "}", "x">>),
       package |-> File(<< <<"1">>, <<"0">> >>), env |-> NoEnv],
      [storage |-> File([doc |-> DevDoc, fmt |-> "app"]),
       sqlite |-> Database(TRUE, OldRows),
       machineId |-> Missing,
       workbench |-> Missing,
       main |-> Missing,
       package |-> Missing, env |-> NoEnv],
      [storage |-> Missing,
       sqlite |-> Database(TRUE, OldRows),
       machineId |-> File(new_ids(0)["telemetry.devDeviceId"]),
       workbench |-> File(<<"x", "notifications-toasts">>),
       main |-> File(<<"x">>),
       package |-> File(<< <<"0">>, <<"4", "6">>, <<"2">> >>), env |-> NoEnv] }

Init ==
    /\ IdIdle
    /\ PatchIdle
    /\ VerIdle
    /\ PathIdle
    /\ ProductIdle
    /\ clock = 0 /\ pc = "idle" /\ run = NoRun /\ runs = 0 /\ faults = 0
    /\ \E inst \in Installations :
          /\ storage = inst.storage
          /\ sqlite = inst.sqlite
          /\ machineId = inst.machineId
          /\ appFile = [f \in {"workbench", "main"} |->
                            IF f = "workbench" THEN inst.workbench ELSE inst.main]
          /\ packageJson = inst.package
          /\ env = inst.env
    /\ storageBak = NoBackups({"bak", "restore_bak"})
    /\ machineIdBak = NoBackups({"backup", "restore_bak"})
    /\ appBak = [n \in {"workbench", "main"} \X {"backup", "bak", "old"} \X Stamps |-> Missing]
    /\ tmpFile = Missing
    /\ appStat = [f \in {"workbench", "main"} |-> InstalledStat]
    /\ sysStore = <<"installed", 0>>

Next ==
    \/ GetConfig \/ ResetInit \/ RestoreInit
    \/ StartReset \/ ResetCheck \/ ResetBackup \/ ResetGenerate
    \/ MachineIdBackup \/ MachineIdWrite \/ ResetWrite
    \/ SqliteConnect \/ SqliteCreateTable \/ SqliteUpsert \/ SqliteCommit
    \/ ResetSystemIds \/ ResetWorkbenchPath
    \/ JsOpen \/ JsFill \/ JsBackup \/ JsRemove \/ JsMove \/ JsChmod \/ JsExcept
    \/ ResetVersionGate \/ PatchCheck \/ PatchBackup \/ ResetDone
    \/ StartBypass \/ BypassWorkbenchPath
    \/ StartRestore \/ RestoreSelect \/ RestoreExtract \/ RestoreConfirm
    \/ RestoreRead \/ RestoreBackup \/ RestoreWrite \/ RestoreSystemIds
    \/ Tick \/ Interrupt

Spec == Init /\ [][Next]_vars


(***************************************************************************)
(* bypass_version (src/bypass_version.py) on product.json.  product holds  *)
(* the file, whether os.access finds it writable, its backups              *)
(* product.json.<timestamp>, the clock and the call in progress.           *)
(***************************************************************************)

MaxCalls == 2

V_0_0_0 == << <<"0">>, <<"0">>, <<"0">> >>
V_0_46_0 == << <<"0">>, <<"4", "6">>, <<"0">> >>
V_0_48_7 == << <<"0">>, <<"4", "8">>, <<"7">> >>

\* The outcomes a step of bypass_version may draw.
ProductOutcomes(failures) ==
    {"ok"} \cup (IF product.faults < MaxFaults THEN failures ELSE {})

\* return of bypass_version.
ProductReturn(p, value) == [p EXCEPT !.pc = "done", !.result = value]

\* A mutant of NeedsBypass: every version is rewritten.
NeedsBypass_always(product_data) == [raised |-> "none", value |-> TRUE]

\* compare_versions(product_data.get("version", "0.0.0"), "0.46.0") < 0
NeedsBypass(product_data) ==
    LET cmp == compare_versions(dict_get(product_data, "version", V_0_0_0), V_0_46_0)
    IN  [raised |-> cmp.raised, value |-> cmp.raised = "none" /\ cmp.value < 0]

\* bypass_version up to its decision: get_product_json_path (OSError when
\* the file is not there), os.access, json.load and the comparison; every
\* failure returns False.
BypassVersion ==
    /\ product # <<>>
    /\ product.pc \in {"idle", "done"}
    /\ product.calls < MaxCalls
    /\ LET call == [product EXCEPT !.calls = @ + 1, !.prev = product.result,
                                   !.result = "none", !.data = <<>>]
       IN  product' =
             IF product.file.kind # "file" \/ ~product.writable
             THEN ProductReturn(call, "False")
             ELSE LET product_data == json_load(product.file)
                      needed == NeedsBypass(product_data)
                  IN  IF needed.raised # "none" THEN ProductReturn(call, "False")
                      ELSE IF needed.value
                      THEN [call EXCEPT !.pc = "backup", !.data = product_data]
                      ELSE ProductReturn([call EXCEPT !.data = product_data], "True")
    /\ UNCHANGED <<idVars, patchVars, verVars, pathVars, mainVars>>

\* shutil.copy2(product_json_path, f"{product_json_path}.{timestamp}"); a
\* failure is caught by the outer except.
BypassVersionBackup ==
    /\ product # <<>>
    /\ product.pc = "backup"
    /\ \E o \in ProductOutcomes({"denied", "partial"}) :
          LET p == [product EXCEPT !.bak = copy2(product.file, @, product.time, o),
                                   !.stamp = product.time,
                                   !.faults = IF o = "ok" THEN @ ELSE @ + 1]
          IN  product' = IF o = "ok" THEN [p EXCEPT !.pc = "write"]
                         ELSE ProductReturn(p, "False")
    /\ UNCHANGED <<idVars, patchVars, verVars, pathVars, mainVars>>

\* product_data["version"] = "0.48.7"; json.dump(product_data, f, indent=2)
BypassVersionWrite ==
    /\ product # <<>>
    /\ product.pc = "write"
    /\ \E o \in ProductOutcomes({"denied", "partial"}) :
          LET new == File([doc |-> dict_update(product.data,
                                               [k \in {"version"} |-> V_0_48_7]),
                           fmt |-> "indent2"])
              p == [product EXCEPT !.file = write_file(@, new, o),
                                   !.faults = IF o = "ok" THEN @ ELSE @ + 1]
          IN  product' = ProductReturn(p, IF o = "ok" THEN "True" ELSE "False")
    /\ UNCHANGED <<idVars, patchVars, verVars, pathVars, mainVars>>

\* A second passes.
ProductTick ==
    /\ product # <<>>
    /\ product.time < MaxClock
    /\ product' = [product EXCEPT !.time = @ + 1]
    /\ UNCHANGED <<idVars, patchVars, verVars, pathVars, mainVars>>

\* The product.json files the calls are tried on: the version key absent,
\* below, at and above 0.46.0, short, and not a dotted number.
ProductVersions ==
    { V_0_45_0, V_0_46_0, V_0_48_7, V_0_9_0, V_1_0_0,
      << <<"0">>, <<"4", "5">> >>, << <<"0">>, <<"4", "6">> >>,
      << <<"0">>, <<"4", "5">>, <<"9">>, <<"1">> >>, << <<"x">> >> }
ProductDocs ==
    { [k \in {"nameShort"} |-> << <<"Cursor">> >>] } \cup
    { [k \in {"nameShort", "version"} |->
          IF k = "version" THEN v ELSE << <<"Cursor">> >>] : v \in ProductVersions }

ProductInit ==
    /\ \E file \in {Missing, Partial} \cup { File([doc |-> d, fmt |-> "app"]) : d \in ProductDocs },
          writable \in BOOLEAN :
          product = [file |-> file, writable |-> writable,
                     bak |-> [n \in Stamps |-> Missing], time |-> 0, stamp |-> 0,
                     pc |-> "idle", result |-> "none", prev |-> "none", data |-> <<>>,
                     calls |-> 0, faults |-> 0]
    /\ IdIdle /\ PatchIdle /\ VerIdle /\ PathIdle /\ MainIdle

ProductNext == BypassVersion \/ BypassVersionBackup \/ BypassVersionWrite \/ ProductTick

ProductSpec == ProductInit /\ [][ProductNext]_vars

\* The version of a document is numerically below 0.46.0 ("0.0.0" when the
\* key is absent).
Below_0_46(doc) ==
    LET text == dict_get(doc, "version", V_0_0_0)
        v == parse_version(text)
    IN  /\ can_parse(text)
        /\ v[1] = 0
        /\ Len(v) >= 2 => v[2] < 46

\* C30: bypass_version writes product.json only when its version is below
\* 0.46.0, with a backup of the file as it was already made; what it writes
\* is the document with version 0.48.7 and every other key as before; and
\* the call that follows a successful one changes neither the file nor the
\* backups.
C30_BypassVersionOnce ==
    [][ product # <<>> =>
          /\ product'.file # product.file =>
                /\ product.file.kind = "file"
                /\ Below_0_46(product.file.data.doc)
                /\ product.bak[product.stamp] = product.file
                /\ product'.file.kind = "file" =>
                      LET old == product.file.data.doc
                          new == product'.file.data.doc
                      IN  /\ new["version"] = V_0_48_7
                          /\ DOMAIN new = DOMAIN old \cup {"version"}
                          /\ \A k \in DOMAIN old \ {"version"} : new[k] = old[k]
          /\ (product.prev = "True" /\ product.pc # "done") =>
                product'.file = product.file /\ product'.bak = product.bak
          /\ (product.result = "True" /\ product.pc = "done") =>
                product'.file = product.file /\ product'.bak = product.bak
      ]_vars

\* C30: a 0.45.0 product.json was rewritten by one call and left alone by
\* the next, with the one backup of the first call.
C30_Witness ==
    /\ product # <<>>
    /\ product.calls = 2 /\ product.prev = "True" /\ product.result = "True"
    /\ product.file.kind = "file"
    /\ dict_get(product.file.data.doc, "version", V_0_0_0) = V_0_48_7
    /\ dict_get(product.file.data.doc, "nameShort", <<>>) = << <<"Cursor">> >>
    /\ \E n \in Stamps :
          /\ product.bak[n].kind = "file"
          /\ dict_get(product.bak[n].data.doc, "version", V_0_0_0) = V_0_45_0
          /\ \A m \in Stamps \ {n} : product.bak[m] = Missing

(***************************************************************************)
(* The properties of the runs                                              *)
(***************************************************************************)

\* A backup among baks holds the content of the file.
HeldBy(file, baks, names) == \E n \in names : baks[n] = file

\* A step that writes over (or removes) a file that is there finds a backup
\* of its content on disk.
BackedUpWrite(old, new, baks, names) ==
    (new # old /\ old.kind # "missing") => HeldBy(old, baks, names)

AppBackupNames(f) == { n \in DOMAIN appBak : n[1] = f }

DatabaseBackups == <<>>

C2_WorkbenchOriginalOrPatched ==
    (run.target = "workbench" /\ run.orig.kind = "file") =>
        \/ appFile["workbench"] = run.orig
        \/ appFile["workbench"] = File(patch_workbench(run.orig.data, run.rules))

\* The identity keys of the live document against a backup's document.
RestoredFrom(doc, b) ==
    \A k \in IdentityKeys :
        /\ k \in DOMAIN doc
        /\ doc[k] = IF k \in DOMAIN b THEN b[k]
                    ELSE IF k = "storage.serviceMachineId"
                            /\ "telemetry.devDeviceId" \in DOMAIN b
                         THEN b["telemetry.devDeviceId"]
                    ELSE Empty

\* C3 as amended: a restore leaves storage.json holding, in the layout of
\* json.dump(indent=4), the identity values of the chosen backup file (the
\* empty string for a key the backup lacks, serviceMachineId falling back to
\* the backup's devDeviceId); when the backup has every identity key the live
\* document is the backup's document.
C3_RestoreRoundTrip ==
    (run.op = "restore" /\ pc = "db_connect") =>
        LET b == json_load(storageBak[<<"bak", run.sel>>]) IN
        /\ storage.kind = "file"
        /\ storage.data.fmt = "indent4"
        /\ RestoredFrom(storage.data.doc, b)
        /\ (IdentityKeys \subseteq DOMAIN b => storage.data.doc = b)

\* C3: a restore has brought the document of the backup back over a live
\* document that resets had changed.
C3_Witness ==
    /\ run.op = "restore" /\ pc = "db_connect"
    /\ storageBak[<<"bak", run.sel>>].kind = "file"
    /\ storage.kind = "file"
    /\ storage.data.doc = json_load(storageBak[<<"bak", run.sel>>])
    /\ run.config # storage.data.doc

\* C3 as stated: after the restore the live config file has exactly the
\* content the backup was taken of.
C3_RestoreExactContent ==
    (run.op = "restore" /\ pc = "db_connect") => storage = storageBak[<<"bak", run.sel>>]

\* The rows a reader finds in the database file.
rows_of(db) == IF db.kind = "file" THEN db.data.rows ELSE <<>>

\* C5: from the connect of update_sqlite_db on, whatever way it ends, a
\* reader of the database finds either the rows as they were before the call
\* or those rows with every identity key set to the new value, never some of
\* the new values only; a call that returned True left the latter.
C5_UpsertsAllOrNothing ==
    (run.dbOk # "none") =>
        /\ \/ rows_of(sqlite) = rows_of(run.dbBefore)
           \/ rows_of(sqlite) = dict_update(rows_of(run.dbBefore), run.ids)
        /\ run.dbOk = "True" =>
              \A k \in IdentityKeys : k \in DOMAIN rows_of(sqlite)
                                      /\ rows_of(sqlite)[k] = run.ids[k]

\* C5: the call failed after upserts, and none of their rows is in the file.
C5_Witness ==
    /\ run.dbOk = "False"
    /\ run.rolled >= 2
    /\ rows_of(sqlite) = rows_of(run.dbBefore)
    /\ rows_of(sqlite) # dict_update(rows_of(run.dbBefore), run.ids)

\* A backup file that is there stays as it is.
Immutable(baks, baks2) == \A n \in DOMAIN baks : baks[n].kind = "file" => baks2[n] = baks[n]

\* C6: once a backup file has been written, no step deletes it or changes its
\* content.
C6_BackupsImmutable ==
    [][ /\ Immutable(storageBak, storageBak')
        /\ Immutable(machineIdBak, machineIdBak')
        /\ Immutable(appBak, appBak') ]_vars

\* C7: a completed write of storage.json by reset or restore keeps every key
\* that is not an identity key, with its value, and adds none but identity
\* keys.
C7_OnlyIdentityKeysChange ==
    [][ (storage' # storage /\ storage.kind = "file" /\ storage'.kind = "file") =>
          LET old == storage.data.doc
              new == storage'.data.doc
          IN  /\ \A k \in DOMAIN old \ IdentityKeys : k \in DOMAIN new /\ new[k] = old[k]
              /\ DOMAIN new \subseteq DOMAIN old \cup IdentityKeys ]_vars

\* C7: an identity set has been committed into a document that held another
\* key.
C7_Witness ==
    /\ pc = "db_connect"
    /\ storage.kind = "file"
    /\ "foo" \in DOMAIN storage.data.doc
    /\ \A k \in IdentityKeys : k \in DOMAIN storage.data.doc /\ storage.data.doc[k] = run.ids[k]
    /\ run.config # storage.data.doc

\* C8: when reset_machine_ids has returned True, the marker file, the
\* telemetry.devDeviceId of storage.json and the telemetry.devDeviceId row of
\* the database all hold the devDeviceId generated in the run.
C8_SuccessMeansStoresAgree ==
    (run.op = "reset" /\ run.result = "True") =>
        LET dev == run.ids["telemetry.devDeviceId"] IN
        /\ machineId = File(dev)
        /\ storage.kind = "file"
        /\ dict_get(storage.data.doc, "telemetry.devDeviceId", Empty) = dev
        /\ dict_get(rows_of(sqlite), "telemetry.devDeviceId", Empty) = dev

\* C9: after update_sqlite_db has failed, the orchestrator is still at the
\* statement that follows the call, or has ended without success.
C9_DatabaseFailureStops ==
    (run.dbOk = "False") =>
        /\ pc \in {AfterSqlite, "done"}
        /\ run.result # "True"


\* The stores a reset writes, as they were when the run started.
Untouched ==
    /\ storage = run.start.storage
    /\ sqlite = run.start.sqlite
    /\ machineId = run.start.machineId
    /\ appFile = run.start.appFile

\* C13: a reset that started with storage.json, state.vscdb or the workbench
\* JS missing changes no file or store (main.js is patched only when the
\* version gate has found it).
C13_NoMutationUnlessPathsReady ==
    (run.op = "reset"
        /\ \/ run.start.storage.kind = "missing"
           \/ run.start.sqlite.kind = "missing"
           \/ run.start.appFile["workbench"].kind = "missing") => Untouched

\* C14: a run in which path resolution failed has returned False to its
\* caller; no exception has left run.
C14_PathFailureReturnsError ==
    run.pathError => (pc = "done" /\ run.result = "False")

\* C16: after a failed update_system_ids the identity values of the run are
\* still in storage.json and, where update_sqlite_db committed them, in the
\* database, and the reset goes on to return True (unless a later step of
\* its own ends it: the workbench JS not found, the process killed).
C16_SystemIdFailureNonFatal ==
    (run.op = "reset" /\ run.sysOk = "False") =>
        /\ pc # "r_sys"
        /\ storage.kind = "file"
        /\ \A k \in IdentityKeys : dict_get(storage.data.doc, k, Empty) = run.ids[k]
        /\ run.dbOk = "True" =>
              \A k \in IdentityKeys : dict_get(rows_of(sqlite), k, Empty) = run.ids[k]
        /\ pc = "done" => \/ run.result = "True"
                          \/ run.result = "killed"
                          \/ run.pathError

\* C16: update_system_ids failed and the reset returned True, the patches
\* done.
C16_Witness ==
    /\ run.op = "reset" /\ run.sysOk = "False" /\ run.result = "True"
    /\ run.jsOk = "True"
    /\ sysStore = <<"installed", 0>>

\* C17: when modify_workbench_js or modify_main_js has returned False, no
\* temporary file of the call is left.
C17_NoTemporaryFileLeft ==
    (run.jsOk = "False") => tmpFile = Missing

\* The names written by a step.
Written(baks, baks2) == { n \in DOMAIN baks : baks2[n] # baks[n] /\ baks2[n].kind # "missing" }

MissingIn(b) == { k \in IdentityKeys : dict_get(b, k, Empty) = Empty }

\* A key of a document left as it was.
Kept(k, old, new) ==
    /\ (k \in DOMAIN new) = (k \in DOMAIN old)
    /\ k \in DOMAIN old => new[k] = old[k]

\* C19: a restore from a backup with empty or absent identity fields warns
\* once for each of them, goes on, and writes to storage.json and to the
\* database the non-empty identity keys and no others.
C19_RestoreWritesNonEmptyOnly ==
    (run.op = "restore" /\ (pc = "db_connect" \/ run.dbOk = "True")) =>
        LET b == json_load(storageBak[<<"bak", run.sel>>]) IN
        /\ run.warned = MissingIn(b)
        /\ storage.kind = "file"
        /\ \A k \in IdentityKeys \ MissingIn(b) : dict_get(storage.data.doc, k, Empty) = b[k]
        /\ \A k \in MissingIn(b) : Kept(k, run.config, storage.data.doc)
        /\ run.dbOk = "True" =>
              \A k \in MissingIn(b) : Kept(k, rows_of(run.dbBefore), rows_of(sqlite))

\* generate_new_ids is running: from the call to the return of the
\* update_machine_id_file it ends with.
InGenerate == run.op = "reset" /\ pc \in {"r_generate", "m_backup", "m_write"}

StepOf(label) ==
    CASE label \in {"r_config", "r_init", "r_check"} -> 0
      [] label = "r_backup" -> 1
      [] label \in {"r_generate", "m_backup", "m_write"} -> 2
      [] label = "r_write" -> 3
      [] label \in {"db_connect", "db_create", "db_upsert", "db_commit"} -> 4
      [] label = "r_sys" -> 5
      [] label \in {"r_wbpath", "js_open", "js_fill", "js_backup", "js_remove", "js_move",
                    "js_chmod", "js_except", "r_version", "p_check", "p_backup"} -> 6
      [] OTHER -> 7

InReset == run.op = "reset" /\ pc \notin {"idle", "done"}

GateOpen ==
    /\ packageJson.kind = "file"
    /\ well_formed(packageJson.data)
    /\ LET v == parse_version(packageJson.data)
       IN  v[1] > 0 \/ (v[1] = 0 /\ v[2] >= 45)

\* main.js, or one of its backups, is written by the step.
MainTouched ==
    \/ appFile'["main"] # appFile["main"]
    \/ \E n \in DOMAIN appBak : n[1] = "main" /\ appBak'[n] # appBak[n]

StorageCommitted ==
    storage = json_dump(dict_update(run.config, run.ids))

\* C23: in reset and in restore the database is opened and written only
\* after storage.json was written; a run whose JSON update fails leaves the
\* database alone.
C23_JsonBeforeDatabase ==
    [][ (pc \notin {"idle", "done"} /\ (sqlite' # sqlite \/ run'.dbOk # run.dbOk)) =>
            /\ run.op \in {"reset", "restore"}
            /\ StepOf(pc) = 4
            /\ StorageCommitted ]_vars

\* C23: the write of storage.json failed half way and the run returned
\* False with the database as it was.
C23_Witness ==
    /\ run.op \in {"reset", "restore"} /\ pc = "done" /\ run.result = "False"
    /\ run.ids # <<>> /\ run.config # <<>>
    /\ storage = Partial
    /\ run.dbOk = "none"
    /\ sqlite = run.start.sqlite

\* C24: a reset in which the last patch call returned False does not
\* return True.
C24_PatchFailureFailsReset ==
    (run.op = "reset" /\ pc = "done" /\ run.jsOk = "False") => run.result # "True"

\* The conditions restore_machine_ids asks for before update_current_file.
RestoreCleared == run.sel # -1 /\ run.ids # <<>> /\ run.confirmed

\* C27: a restore writes nothing before a backup was selected, its values
\* were extracted and the user confirmed, and a restore that stops there
\* returns False.
C27_RestoreWritesAfterConfirm ==
    [][ /\ (run.op = "restore" /\ pc \notin {"idle", "done"} /\ ~RestoreCleared) =>
              UNCHANGED diskVars
        /\ (run'.op = "restore" /\ pc' = "done" /\ ~RestoreCleared'
              /\ run'.result \notin {"killed", "raised"}) => run'.result = "False"
      ]_vars

\* C27: the user answered no to the confirmation of a selected, readable
\* backup; restore returned False with every store as it was.
C27_Witness ==
    /\ run.op = "restore" /\ pc = "done" /\ run.result = "False"
    /\ run.sel # -1 /\ run.ids # <<>> /\ ~run.confirmed
    /\ storage = run.start.storage /\ sqlite = run.start.sqlite
    /\ machineId = run.start.machineId
    /\ storageBak[<<"restore_bak", clock>>] = Missing

\* C28: when modify_workbench_js or modify_main_js has returned False, the
\* target file is as it was before the call.
C28_FailedPatchLeavesFile ==
    run.jsOk = "False" => appFile[run.target] = run.orig


\* C25: when modify_workbench_js or modify_main_js has returned True, the
\* file has the mode it had before the call and, off Windows, the owner.
C25_ModeAndOwnerKept ==
    run.jsOk = "True" =>
        /\ appStat[run.target].mode = run.stat.mode
        /\ env.platform # "win32" => appStat[run.target].owner = run.stat.owner

\* C25: a patch has replaced a file of another mode and owner than the
\* temporary file's and returned True.
C25_Witness ==
    /\ run.jsOk = "True"
    /\ env.platform # "win32"
    /\ appFile[run.target] # run.orig
    /\ run.stat.mode # TemporaryStat.mode /\ run.stat.owner # TemporaryStat.owner
    /\ appStat[run.target] = run.stat


=============================================================================
